---- MODULE Spec2Model ----
(***************************************************************************)
(* Model of the daily article pipeline of ai-cyber-monitor:                *)
(*   scripts/scan.py         scan_all_sources   (ingest into the day store)*)
(*   scripts/deduplicate.py  run_deduplication  (duplicate grouping)       *)
(*   scripts/summarize.py    summarize_articles (enrichment pass)          *)
(*   scripts/llm_provider.py GeminiProvider / ClaudeProvider (backend)     *)
(*                                                                         *)
(* Python strings are sequences of one-character strings, so that lower(), *)
(* strip(), rstrip("/"), startswith(), slicing and difflib's matching are  *)
(* computed on the characters.  Python dicts are functions from key names  *)
(* to values; a key is present iff it is in the DOMAIN.  None is the       *)
(* one-element sequence <<"None">>, which is no string of characters.      *)
(***************************************************************************)
EXTENDS Integers, Sequences, FiniteSets, TLC

VARIABLES file, threshold, hasKey, run, ingested, runsLeft, limiter

vars == <<file, threshold, hasKey, run, ingested, runsLeft, limiter>>

---------------------------------------------------------------------------
(* Bounds of the model *)

\* longest input list handed to deduplicate_articles in SpecDedup
MaxArticles == 3
\* number of records of the initial store in SpecEnrich
MaxStore == 2
\* number of runs (scan, grouping, enrichment) started in Spec
MaxRuns == 4
\* number of runs started in SpecDedup, SpecEnrich and SpecPass
MaxPasses == 2

---------------------------------------------------------------------------
(* Python string primitives *)

None == <<"None">>

Min(a, b) == IF a <= b THEN a ELSE b

UpperAlpha == <<"A","B","C","D","E","F","G","H","I","J","K","L","M",
                "N","O","P","Q","R","S","T","U","V","W","X","Y","Z">>

LowerAlpha == <<"a","b","c","d","e","f","g","h","i","j","k","l","m",
                "n","o","p","q","r","s","t","u","v","w","x","y","z">>

lower_char(c) ==
    IF \E k \in 1..26 : UpperAlpha[k] = c
    THEN LowerAlpha[CHOOSE k \in 1..26 : UpperAlpha[k] = c]
    ELSE c

\* str.lower()
lower(s) == [k \in 1..Len(s) |-> lower_char(s[k])]

IsSpace(c) == c \in {" ", "\t", "\n", "\r"}

RECURSIVE lstrip(_)
lstrip(s) == IF Len(s) > 0 /\ IsSpace(s[1]) THEN lstrip(Tail(s)) ELSE s

RECURSIVE rstrip(_)
rstrip(s) ==
    IF Len(s) > 0 /\ IsSpace(s[Len(s)]) THEN rstrip(SubSeq(s, 1, Len(s) - 1)) ELSE s

\* str.strip()
strip(s) == lstrip(rstrip(s))

\* str.rstrip("/")
RECURSIVE rstrip_slash(_)
rstrip_slash(s) ==
    IF Len(s) > 0 /\ s[Len(s)] = "/" THEN rstrip_slash(SubSeq(s, 1, Len(s) - 1)) ELSE s

\* str.startswith(p)
startswith(s, p) == Len(p) <= Len(s) /\ SubSeq(s, 1, Len(p)) = p

\* s[:n]
Take(s, n) == SubSeq(s, 1, Min(n, Len(s)))

\* s[n:]
Drop(s, n) == SubSeq(s, n + 1, Len(s))

\* dict.get(key, default)
Get(d, key, default) == IF key \in DOMAIN d THEN d[key] ELSE default

\* {**d, key: value}
Put(d, key, value) ==
    [f \in DOMAIN d \cup {key} |-> IF f = key THEN value ELSE d[f]]

---------------------------------------------------------------------------
(* deduplicate.py: title normalisation and similarity *)

PrefixBreaking == <<"b","r","e","a","k","i","n","g",":">>
PrefixUpdate == <<"u","p","d","a","t","e",":">>
PrefixExclusive == <<"e","x","c","l","u","s","i","v","e",":">>
PrefixReport == <<"r","e","p","o","r","t",":">>

\* one iteration of the prefix loop
strip_prefix(title, prefix) ==
    IF startswith(title, prefix) THEN strip(Drop(title, Len(prefix))) ELSE title

\* variant: lowercases and trims but leaves the editorial prefix in place
normalize_title_keep_prefix(title) == strip(lower(title))

normalize_title(title) ==
    strip_prefix(strip_prefix(strip_prefix(strip_prefix(
        strip(lower(title)), PrefixBreaking), PrefixUpdate), PrefixExclusive), PrefixReport)

\* length of the common run of a[i..ahi] and b[j..bhi] (indices from 1, inclusive)
RECURSIVE CommonLen(_, _, _, _, _, _)
CommonLen(a, b, i, j, ahi, bhi) ==
    IF i > ahi \/ j > bhi THEN 0
    ELSE IF a[i] # b[j] THEN 0
    ELSE 1 + CommonLen(a, b, i + 1, j + 1, ahi, bhi)

\* difflib.SequenceMatcher.find_longest_match without junk (no isjunk, and
\* autojunk only acts on sequences of 200 or more elements): the longest
\* block, of those the one starting earliest in a, of those earliest in b.
find_longest_match(a, b, alo, ahi, blo, bhi) ==
    LET size == [p \in (alo..ahi) \X (blo..bhi) |-> CommonLen(a, b, p[1], p[2], ahi, bhi)]
        best == CHOOSE p \in DOMAIN size :
                    \A q \in DOMAIN size :
                        \/ size[p] > size[q]
                        \/ /\ size[p] = size[q]
                           /\ \/ p[1] < q[1]
                              \/ p[1] = q[1] /\ p[2] <= q[2]
    IN [i |-> best[1], j |-> best[2], size |-> size[best]]

\* sum of the sizes of difflib's get_matching_blocks
RECURSIVE Matches(_, _, _, _, _, _)
Matches(a, b, alo, ahi, blo, bhi) ==
    IF alo > ahi \/ blo > bhi THEN 0
    ELSE LET m == find_longest_match(a, b, alo, ahi, blo, bhi)
         IN IF m.size = 0 THEN 0
            ELSE m.size
                 + Matches(a, b, alo, m.i - 1, blo, m.j - 1)
                 + Matches(a, b, m.i + m.size, ahi, m.j + m.size, bhi)

\* title_similarity(title_a, title_b) as the exact fraction 2*M / T that
\* SequenceMatcher.ratio() rounds; ratio() is 1.0 when both are empty.
title_similarity(title_a, title_b) ==
    LET a == normalize_title(title_a)
        b == normalize_title(title_b)
        m == Matches(a, b, 1, Len(a), 1, Len(b))
    IN IF Len(a) + Len(b) = 0 THEN [num |-> 1, den |-> 1]
       ELSE [num |-> 2 * m, den |-> Len(a) + Len(b)]

\* sim >= threshold, the threshold being the fraction t.num / t.den
SimGE(sim, t) == sim.num * t.den >= t.num * sim.den

---------------------------------------------------------------------------
(* The feed entries the sources serve, as fetch_rss turns them into records *)

UrlA == <<"h","t","t","p","s",":","/","/","x",".","c","o","m","/","a">>
UrlASlash == <<"h","t","t","p","s",":","/","/","x",".","c","o","m","/","a","/">>
UrlAUpper == <<"H","T","T","P","S",":","/","/","X",".","c","o","m","/","A">>
UrlB == <<"h","t","t","p","s",":","/","/","y",".","c","o","m","/","b">>
UrlC == <<"h","t","t","p","s",":","/","/","z",".","c","o","m","/","c">>
UrlD == <<"h","t","t","p","s",":","/","/","w",".","c","o","m","/","d">>

TitleFlaw == <<"M","a","j","o","r"," ","v","e","n","d","o","r"," ","p","a","t","c","h","e","s",
               " ","c","r","i","t","i","c","a","l"," ","f","l","a","w">>
TitleBreaking == <<"B","r","e","a","k","i","n","g",":"," ","M","a","j","o","r"," ",
                   "V","e","n","d","o","r"," ","P","a","t","c","h","e","s"," ",
                   "C","r","i","t","i","c","a","l"," ","F","l","a","w">>
TitleShips == <<"M","a","j","o","r"," ","v","e","n","d","o","r"," ","s","h","i","p","s",
                " ","c","r","i","t","i","c","a","l"," ","f","l","a","w">>
TitleModel == <<"A","I"," ","l","a","b"," ","s","h","i","p","s"," ","m","o","d","e","l">>

DescPatch == <<"p","a","t","c","h">>
DescVendor == <<"v","e","n","d","o","r"," ","p","a","t","c","h">>

CatAi == <<"a","i">>
CatCyber == <<"c","y","b","e","r">>

\* generate_article_id: the digest of "url|title|date", modelled as the triple
\* itself (equal ids iff equal triples)
generate_article_id(url, title, date_str) == <<url, title, date_str>>

\* the article dict of fetch_rss (source_url and fetched_at, which no stage
\* reads, are left out)
Article(url, title, description, source_name, category, published) ==
    [id |-> generate_article_id(url, title, published),
     title_original |-> title,
     url |-> url,
     description |-> description,
     source_name |-> source_name,
     category |-> category,
     published |-> published]

Feed == <<Article(UrlA, TitleFlaw, DescPatch, "S1", CatCyber, "t1"),
          Article(UrlASlash, TitleFlaw, <<>>, "S2", CatCyber, "t1"),
          Article(UrlB, TitleBreaking, DescVendor, "S2", CatCyber, "t2"),
          Article(UrlAUpper, TitleShips, DescPatch, "S3", CatCyber, "t2"),
          Article(UrlC, TitleModel, <<>>, "S3", CatAi, "t3"),
          Article(UrlD, <<>>, <<>>, "S1", CatAi, "t3")>>

\* Records whose titles form a chain: title_similarity is 9/11 for A and B,
\* 9/10 for B and C, 3/4 for A and C.  D has the URL of A up to the trailing
\* slash and the title of C.  B is a dict without the "description" key, which
\* deduplicate_articles reads with a.get("description", "").
TitleChainA == <<"N","e","w"," ","a","c","m","e"," ","h","a","c","k">>
TitleChainB == <<"a","c","m","e"," ","h","a","c","k">>
TitleChainC == <<"a","c","m","e"," ","h","a","c","k","e","d">>

Without(a, key) == [f \in DOMAIN a \ {key} |-> a[f]]

ChainFeed == <<Article(UrlA, TitleChainA, DescPatch, "S1", CatCyber, "t1"),
               Without(Article(UrlB, TitleChainB, <<>>, "S2", CatCyber, "t1"),
                       "description"),
               Article(UrlC, TitleChainC, DescPatch, "S3", CatCyber, "t2"),
               Article(UrlASlash, TitleChainC, DescVendor, "S2", CatCyber, "t2")>>

\* config["deduplication"]["title_similarity_threshold"]: 0.8 or 0.99
Thresholds == {[num |-> 4, den |-> 5], [num |-> 99, den |-> 100]}

FeedTitles == {Feed[k].title_original : k \in 1..Len(Feed)}
ChainTitles == {ChainFeed[k].title_original : k \in 1..Len(ChainFeed)}

\* title_similarity of every pair of titles of one feed, computed once
SimTable ==
    {[a |-> p[1], b |-> p[2], sim |-> title_similarity(p[1], p[2])] :
        p \in (FeedTitles \X FeedTitles) \cup (ChainTitles \X ChainTitles)}

\* the call title_similarity(title_i, title_j) of the title pass
Similarity(title_a, title_b) ==
    IF \E e \in SimTable : e.a = title_a /\ e.b = title_b
    THEN (CHOOSE e \in SimTable : e.a = title_a /\ e.b = title_b).sim
    ELSE title_similarity(title_a, title_b)

---------------------------------------------------------------------------
(* deduplicate.py: deduplicate_articles *)

\* Step 1, the loop over enumerate(articles): groups by article["url"].rstrip("/").lower()
RECURSIVE UrlPass(_, _, _, _)
UrlPass(articles, i, groups, url_map) ==
    IF i > Len(articles) THEN groups
    ELSE LET article == articles[i]
             url == lower(rstrip_slash(article.url))
         IN IF url \in DOMAIN url_map
            THEN UrlPass(articles, i + 1,
                         [groups EXCEPT ![url_map[url]] = Append(@, article)], url_map)
            ELSE UrlPass(articles, i + 1, Append(groups, <<article>>),
                         [u \in DOMAIN url_map \cup {url} |->
                             IF u = url THEN Len(groups) + 1 ELSE url_map[u]])

\* variant: group i is compared by the title of the member it absorbed last
RECURSIVE TitleInnerLatestTitle(_, _, _, _, _, _)
TitleInnerLatestTitle(groups, i, j, title_i, t, merged_count) ==
    IF j > Len(groups) THEN [groups |-> groups, merged_count |-> merged_count]
    ELSE IF Len(groups[j]) = 0
    THEN TitleInnerLatestTitle(groups, i, j + 1, title_i, t, merged_count)
    ELSE IF SimGE(Similarity(groups[i][Len(groups[i])].title_original,
                             groups[j][1].title_original), t)
    THEN TitleInnerLatestTitle([groups EXCEPT ![i] = @ \o groups[j], ![j] = <<>>],
                               i, j + 1, title_i, t, merged_count + 1)
    ELSE TitleInnerLatestTitle(groups, i, j + 1, title_i, t, merged_count)

\* Step 2, the inner loop over j for one i; title_i was read before the loop
RECURSIVE TitleInner(_, _, _, _, _, _)
TitleInner(groups, i, j, title_i, t, merged_count) ==
    IF j > Len(groups) THEN [groups |-> groups, merged_count |-> merged_count]
    ELSE IF Len(groups[j]) = 0
    THEN TitleInner(groups, i, j + 1, title_i, t, merged_count)
    ELSE IF SimGE(Similarity(title_i, groups[j][1].title_original), t)
    THEN TitleInner([groups EXCEPT ![i] = @ \o groups[j], ![j] = <<>>],
                    i, j + 1, title_i, t, merged_count + 1)
    ELSE TitleInner(groups, i, j + 1, title_i, t, merged_count)

\* Step 2, the outer loop over i
RECURSIVE TitlePass(_, _, _, _)
TitlePass(groups, i, t, merged_count) ==
    IF i > Len(groups) THEN [groups |-> groups, merged_count |-> merged_count]
    ELSE IF Len(groups[i]) = 0 THEN TitlePass(groups, i + 1, t, merged_count)
    ELSE LET r == TitleInner(groups, i, i + 1, groups[i][1].title_original, t, merged_count)
         IN TitlePass(r.groups, i + 1, t, r.merged_count)

DescLen(a) == Len(Get(a, "description", <<>>))

\* variant: the last member of maximal description length
PrimaryLastMax(group) ==
    group[CHOOSE k \in 1..Len(group) :
            /\ \A m \in 1..Len(group) : DescLen(group[m]) <= DescLen(group[k])
            /\ \A m \in (k + 1)..Len(group) : DescLen(group[m]) < DescLen(group[k])]

\* max(group, key=lambda a: len(a.get("description", ""))): the first maximum
Primary(group) ==
    group[CHOOSE k \in 1..Len(group) :
            /\ \A m \in 1..Len(group) : DescLen(group[m]) <= DescLen(group[k])
            /\ \A m \in 1..(k - 1) : DescLen(group[m]) < DescLen(group[k])]

\* the sources loop: one {name, url} per distinct article["url"], first occurrence
RECURSIVE Sources(_, _, _, _)
Sources(group, k, sources, seen_source_urls) ==
    IF k > Len(group) THEN sources
    ELSE IF group[k].url \in seen_source_urls
    THEN Sources(group, k + 1, sources, seen_source_urls)
    ELSE Sources(group, k + 1,
                 Append(sources, [name |-> group[k].source_name, url |-> group[k].url]),
                 seen_source_urls \cup {group[k].url})

\* variant: duplicate_count taken from the sources list instead of the group
DeduplicatedCountingSources(group) ==
    Put(Put(Primary(group), "sources", Sources(group, 1, <<>>, {})),
        "duplicate_count", Len(Sources(group, 1, <<>>, {})))

\* {**primary, "sources": sources, "duplicate_count": len(group)}
Deduplicated(group) ==
    Put(Put(Primary(group), "sources", Sources(group, 1, <<>>, {})),
        "duplicate_count", Len(group))

\* the result loop: one record per non-empty group, in group order
RECURSIVE BuildResult(_, _)
BuildResult(groups, g) ==
    IF g > Len(groups) THEN <<>>
    ELSE IF Len(groups[g]) = 0 THEN BuildResult(groups, g + 1)
    ELSE <<Deduplicated(groups[g])>> \o BuildResult(groups, g + 1)

deduplicate_articles(articles, t) ==
    LET r == TitlePass(UrlPass(articles, 1, <<>>, <<>>), 1, t, 0)
    IN [result |-> BuildResult(r.groups, 1), merged_count |-> r.merged_count]

---------------------------------------------------------------------------
(* llm_provider.py: the backend's answers and GeminiProvider.summarize      *)
(* (ClaudeProvider.summarize is the same code)                             *)

GenSummary == <<"A"," ","f","l","a","w"," ","w","a","s"," ","f","i","x","e","d",".">>
GenDetails == <<"I","m","p","a","c","t",":"," ","w","i","d","e">>

\* What one call of generate_content can come back with: an exception (error,
\* timeout), text that is no JSON, JSON that is no object, or a JSON object:
\* complete, echoing the title, or with absent or null fields.
ResponseKinds == {"raise", "garbage", "nondict", "genuine", "echo", "echo_padded",
                  "no_summary", "null_summary", "null_details", "null_category",
                  "only_summary", "empty_summary"}

Genuine(title) ==
    [summary |-> GenSummary, details |-> GenDetails, category |-> CatCyber, title_he |-> title]

\* the object _parse_llm_json returns for a response of that kind
Payload(kind, title) ==
    CASE kind = "genuine" -> Genuine(title)
      [] kind = "echo" -> [Genuine(title) EXCEPT !.summary = title]
      [] kind = "echo_padded" -> [Genuine(title) EXCEPT !.summary = <<" ">> \o title \o <<" ">>]
      [] kind = "no_summary" ->
            [details |-> GenDetails, category |-> CatCyber, title_he |-> title]
      [] kind = "null_summary" -> [Genuine(title) EXCEPT !.summary = None]
      [] kind = "null_details" -> [Genuine(title) EXCEPT !.details = None]
      [] kind = "null_category" -> [Genuine(title) EXCEPT !.category = None]
      [] kind = "only_summary" -> [summary |-> GenSummary]
      [] kind = "empty_summary" -> [Genuine(title) EXCEPT !.summary = <<>>]

\* variant: one attempt more
RetryBudgetThree == 2 + 1

\* for attempt in range(2)
RetryBudget == 2

\* One pass through the try block: TRUE when it reaches "return result".
\* generate_content raising, json.loads raising, result.get on a non-object and
\* .strip() on a null summary all end in the except clause; a summary equal to
\* the title after strip() ends in the first continue.
Returns(kind, title) ==
    IF kind \in {"raise", "garbage", "nondict"} THEN FALSE
    ELSE LET summary == Get(Payload(kind, title), "summary", <<>>)
         IN IF summary = None THEN FALSE
            ELSE strip(summary) # strip(title)

\* the dict built after the loop: desc = content[:300] if content else title
Fallback(title, content, category) ==
    [summary |-> IF content # <<>> THEN Take(content, 300) ELSE title,
     details |-> <<>>,
     category |-> category,
     title_he |-> title]

---------------------------------------------------------------------------
(* summarize.py: the per-record part of summarize_articles *)

\* what fetch_article_content returns: "" on failure, else the page text
\* (capped at 8000 characters, which none of these reaches)
FetchedShort == <<"a","b","c">>
FetchedLong == [k \in 1..301 |-> "z"]
FetchResults == {<<>>, FetchedShort, FetchedLong}

\* a page text of the length of DescPatch
FetchedSame == <<"f","i","x","e","s">>

\* variant: no filter, every record is selected
to_summarize_all(articles) == [k \in 1..Len(articles) |-> k]

\* to_summarize = [a for a in articles if "summary_he" not in a], as indices
to_summarize(articles) ==
    SelectSeq([k \in 1..Len(articles) |-> k],
              LAMBDA k : "summary_he" \notin DOMAIN articles[k])

\* lines 141-144: the content handed to the backend
BuildContent(full_content, description) ==
    IF full_content # <<>> /\ Len(full_content) > Len(description)
    THEN full_content
    ELSE description

\* lines 149-152: the write-back into the article dict
UpdateArticle(article, result, title, content, category) ==
    Put(Put(Put(Put(article,
        "title_he", Get(result, "title_he", title)),
        "summary_he", Get(result, "summary", title)),
        "details_he", Get(result, "details", Take(content, 500))),
        "category", Get(result, "category", category))

---------------------------------------------------------------------------
(* State                                                                   *)
(*   file      the day store on disk: whether it exists, whether its text  *)
(*             is a complete JSON list, and the records it holds           *)
(*   threshold config title_similarity_threshold, a fraction               *)
(*   hasKey    whether the backend's API key is in the environment         *)
(*   run       per run (one invocation of a script): its position, its     *)
(*             local variables, and a record of what it did                *)
(*   ingested  normalized URLs of the records scans have written so far    *)
(*   runsLeft  runs that may still be started                              *)
(*   limiter   per run, the rate limiter of its provider instance: max_rpm *)
(*             and the instance's clock                                    *)

Runs == {1, 2}

NoFile == [exists |-> FALSE, wellformed |-> FALSE, records |-> <<>>]

\* the file right after open(articles_file, "w"): empty text, not yet a list
Truncated == [exists |-> TRUE, wellformed |-> FALSE, records |-> <<>>]

StoreFile(records) == [exists |-> TRUE, wellformed |-> TRUE, records |-> records]

IdleRun ==
    [pc |-> "idle", kind |-> "none", outcome |-> "none",
     loaded |-> <<>>, articles |-> <<>>, todo |-> <<>>, idx |-> 0,
     attempt |-> 0, fetched |-> <<>>, content |-> <<>>, calls |-> 0, echoes |-> 0,
     success_count |-> 0, fail_count |-> 0, log |-> <<>>]

\* a run that has ended: its memory is gone, how it ended is kept
Returned(kind, outcome, loaded, articles) ==
    [IdleRun EXCEPT !.kind = kind, !.outcome = outcome,
                    !.loaded = loaded, !.articles = articles]

NormUrl(url) == lower(rstrip_slash(url))

UrlsOf(articles) == {articles[k].url : k \in 1..Len(articles)}

---------------------------------------------------------------------------
(* llm_provider.py: _rate_limit                                            *)
(* Time is counted in whole seconds.  An instance's clock is               *)
(* elapsed = time.time() - self._last_call, kept up to MaxElapsed, which   *)
(* stands for "that long or longer"; gap is the value elapsed had when     *)
(* _last_call was last set, that is the time between its last two calls.   *)

\* longest time an instance's clock tells apart
MaxElapsed == 4

\* config["llm"][...]["max_rpm"]
RpmChoices == {30, 20}

\* min_interval = 60.0 / self.max_rpm
min_interval(max_rpm) == 60 \div max_rpm

\* variant: no wait at all
SleepForNothing(elapsed, max_rpm) == 0

\* what _rate_limit sleeps: min_interval - elapsed if elapsed < min_interval
SleepFor(elapsed, max_rpm) ==
    IF elapsed < min_interval(max_rpm) THEN min_interval(max_rpm) - elapsed ELSE 0

\* no instance yet; max_rpm is what the config holds for it
NoProvider(max_rpm) ==
    [built |-> FALSE, max_rpm |-> max_rpm, elapsed |-> MaxElapsed, gap |-> MaxElapsed]

\* __init__: self._last_call = 0, so elapsed is the time since 1970
NewProvider(max_rpm) == [NoProvider(max_rpm) EXCEPT !.built = TRUE]

\* d seconds pass, for every instance
Pass(l, d) == [p \in DOMAIN l |-> [l[p] EXCEPT !.elapsed = Min(@ + d, MaxElapsed)]]

\* instance r runs _rate_limit: it sleeps, then sets _last_call to the time
RateLimit(l, r) ==
    LET slept == SleepFor(l[r].elapsed, l[r].max_rpm)
    IN [Pass(l, slept) EXCEPT ![r].gap = Min(l[r].elapsed + slept, MaxElapsed),
                              ![r].elapsed = 0]

---------------------------------------------------------------------------
(* scan.py: scan_all_sources *)

\* variant: all_articles starts empty instead of as a copy of the store
AppendNewFetchedOnly(fetched, i, all_articles, existing_urls) ==
    SubSeq(fetched, i, Len(fetched))

\* variant: no existing_urls test, every fetched entry is appended
AppendNewUnchecked(fetched, i, all_articles, existing_urls) ==
    all_articles \o SubSeq(fetched, i, Len(fetched))

\* the loop "for article in articles" over what the sources returned
RECURSIVE AppendNew(_, _, _, _)
AppendNew(fetched, i, all_articles, existing_urls) ==
    IF i > Len(fetched) THEN all_articles
    ELSE IF fetched[i].url \notin existing_urls
    THEN AppendNew(fetched, i + 1, Append(all_articles, fetched[i]),
                   existing_urls \cup {fetched[i].url})
    ELSE AppendNew(fetched, i + 1, all_articles, existing_urls)

\* longest list of entries the sources return in one scan
MaxBatch == 1

\* load the existing store, fetch, append what is new; then the save
ScanStart(r) ==
    /\ run[r].pc = "idle"
    /\ runsLeft > 0
    /\ runsLeft' = runsLeft - 1
    /\ IF file.exists /\ ~file.wellformed
       THEN run' = [run EXCEPT ![r] = Returned("scan", "load_error", <<>>, <<>>)]
       ELSE \E i \in 1..Len(Feed), n \in 1..MaxBatch :
               /\ i + n - 1 <= Len(Feed)
               /\ LET existing_articles == IF file.exists THEN file.records ELSE <<>>
                      all_articles == AppendNew(SubSeq(Feed, i, i + n - 1), 1,
                                                existing_articles,
                                                UrlsOf(existing_articles))
                  IN run' = [run EXCEPT ![r] =
                                [IdleRun EXCEPT !.pc = "save_open", !.kind = "scan",
                                                !.loaded = existing_articles,
                                                !.articles = all_articles]]
    /\ UNCHANGED <<file, threshold, hasKey, ingested, limiter>>

---------------------------------------------------------------------------
(* deduplicate.py: run_deduplication *)

\* variant: no articles_file.exists() test, open() raises on a missing file
DedupStartNoExistsCheck(r) ==
    /\ run[r].pc = "idle"
    /\ runsLeft > 0
    /\ runsLeft' = runsLeft - 1
    /\ run' = [run EXCEPT ![r] =
          IF ~file.exists \/ ~file.wellformed
          THEN Returned("dedup", "load_error", <<>>, <<>>)
          ELSE [IdleRun EXCEPT !.pc = "save_open", !.kind = "dedup",
                               !.loaded = file.records,
                               !.articles =
                                   deduplicate_articles(file.records, threshold).result]]
    /\ UNCHANGED <<file, threshold, hasKey, ingested, limiter>>

\* the outcome "no_file" is the branch that logs an error and returns []
DedupStart(r) ==
    /\ run[r].pc = "idle"
    /\ runsLeft > 0
    /\ runsLeft' = runsLeft - 1
    /\ run' = [run EXCEPT ![r] =
          IF ~file.exists THEN Returned("dedup", "no_file", <<>>, <<>>)
          ELSE IF ~file.wellformed THEN Returned("dedup", "load_error", <<>>, <<>>)
          ELSE [IdleRun EXCEPT !.pc = "save_open", !.kind = "dedup",
                               !.loaded = file.records,
                               !.articles =
                                   deduplicate_articles(file.records, threshold).result]]
    /\ UNCHANGED <<file, threshold, hasKey, ingested, limiter>>

---------------------------------------------------------------------------
(* summarize.py: summarize_articles *)

\* variant: the key is not looked at when the provider is built
ProviderNeverRaises(has_key) == FALSE

\* get_provider: GeminiProvider.__init__ and ClaudeProvider.__init__ raise
\* ValueError when the API key is not in the environment
ProviderRaises(has_key) == ~has_key

\* load, filter, get_provider
EnrichStart(r) ==
    /\ run[r].pc = "idle"
    /\ runsLeft > 0
    /\ runsLeft' = runsLeft - 1
    /\ run' = [run EXCEPT ![r] =
          IF ~file.exists THEN Returned("enrich", "no_file", <<>>, <<>>)
          ELSE IF ~file.wellformed THEN Returned("enrich", "load_error", <<>>, <<>>)
          ELSE IF to_summarize(file.records) = <<>>
          THEN Returned("enrich", "all_summarized", <<>>, <<>>)
          ELSE IF ProviderRaises(hasKey)
          THEN Returned("enrich", "config_error", <<>>, <<>>)
          ELSE [IdleRun EXCEPT !.pc = "fetch", !.kind = "enrich",
                               !.loaded = file.records, !.articles = file.records,
                               !.todo = to_summarize(file.records), !.idx = 1]]
    /\ limiter' = IF file.exists /\ file.wellformed
                     /\ to_summarize(file.records) # <<>> /\ ~ProviderRaises(hasKey)
                  THEN [limiter EXCEPT ![r] = NewProvider(@.max_rpm)]
                  ELSE limiter
    /\ UNCHANGED <<file, threshold, hasKey, ingested>>

\* lines 123-144 for the record at to_summarize[idx]
Fetch(r, results) ==
    /\ run[r].pc = "fetch"
    /\ LET article == run[r].articles[run[r].todo[run[r].idx]]
           description == Get(article, "description", <<>>)
           url == Get(article, "url", <<>>)
       IN \E full_content \in (IF url = <<>> THEN {<<>>} ELSE results) :
             run' = [run EXCEPT ![r].pc = "call", ![r].attempt = 0,
                                ![r].calls = 0, ![r].echoes = 0,
                                ![r].fetched = full_content,
                                ![r].content = BuildContent(full_content, description)]
    /\ UNCHANGED <<file, threshold, hasKey, ingested, runsLeft, limiter>>

\* a complete response whose summary is the title after strip()
IsEcho(kind, title) ==
    /\ kind \notin {"raise", "garbage", "nondict"}
    /\ DOMAIN Payload(kind, title) = {"summary", "details", "category", "title_he"}
    /\ None \notin {Payload(kind, title)[f] : f \in DOMAIN Payload(kind, title)}
    /\ strip(Payload(kind, title).summary) = strip(title)

\* lines 154-157: if result.get("summary") and result["summary"] != title[:100]
CountsAsSuccess(result, title) ==
    /\ "summary" \in DOMAIN result
    /\ result.summary \notin {None, <<>>}
    /\ result.summary # Take(title, 100)

\* One attempt of provider.summarize: _rate_limit, then the backend call; when
\* summarize returns (a result or, after the last attempt, the fallback) lines
\* 149-157 write it back and count it, and the loop moves to the next record
\* or to the save.  full_content is not read again.
Call(r, kinds) ==
    /\ run[r].pc = "call"
    /\ LET k == run[r].todo[run[r].idx]
           article == run[r].articles[k]
           title == Get(article, "title_original", <<>>)
           category == Get(article, "category", CatAi)
           content == run[r].content
       IN \E kind \in kinds :
             LET calls == run[r].calls + 1
                 echoes == run[r].echoes + (IF IsEcho(kind, title) THEN 1 ELSE 0)
                 returned == Returns(kind, title)
             IN IF ~returned /\ run[r].attempt + 1 < RetryBudget
                THEN run' = [run EXCEPT ![r].attempt = @ + 1,
                                        ![r].calls = calls, ![r].echoes = echoes]
                ELSE LET result == IF returned THEN Payload(kind, title)
                                   ELSE Fallback(title, content, category)
                         entry == [k |-> k,
                                   via |-> IF returned THEN "backend" ELSE "fallback",
                                   fields |-> DOMAIN result]
                         last == run[r].idx = Len(run[r].todo)
                         success == CountsAsSuccess(result, title)
                     IN run' = [run EXCEPT
                           ![r].articles[k] =
                               UpdateArticle(article, result, title, content, category),
                           ![r].log = Append(@, entry),
                           ![r].fetched = <<>>,
                           ![r].success_count = IF success THEN @ + 1 ELSE @,
                           ![r].fail_count = IF success THEN @ ELSE @ + 1,
                           ![r].calls = calls, ![r].echoes = echoes,
                           ![r].idx = IF last THEN @ ELSE @ + 1,
                           ![r].pc = IF last THEN "save_open" ELSE "fetch"]
    /\ limiter' = RateLimit(limiter, r)
    /\ UNCHANGED <<file, threshold, hasKey, ingested, runsLeft>>

---------------------------------------------------------------------------
(* The save of all three scripts:                                          *)
(*   with open(articles_file, "w") as f: json.dump(articles, f, ...)       *)

\* open(..., "w") truncates the file
SaveOpen(r) ==
    /\ run[r].pc = "save_open"
    /\ file' = Truncated
    /\ run' = [run EXCEPT ![r].pc = "save_dump"]
    /\ UNCHANGED <<threshold, hasKey, ingested, runsLeft, limiter>>

\* json.dump and the close: the whole list is on disk
SaveDump(r) ==
    /\ run[r].pc = "save_dump"
    /\ file' = StoreFile(run[r].articles)
    /\ run' = [run EXCEPT ![r] = Returned(run[r].kind, "saved", <<>>, <<>>)]
    /\ ingested' = IF run[r].kind = "scan"
                   THEN ingested \cup {NormUrl(u) : u \in UrlsOf(run[r].articles)}
                   ELSE ingested
    /\ limiter' = [limiter EXCEPT ![r] = NoProvider(@.max_rpm)]
    /\ UNCHANGED <<threshold, hasKey, runsLeft>>

\* the process dies (killed, power loss, disk full) wherever it is
Crash(r) ==
    /\ run[r].pc # "idle"
    /\ run' = [run EXCEPT ![r] = Returned(run[r].kind, "crashed", <<>>, <<>>)]
    /\ limiter' = [limiter EXCEPT ![r] = NoProvider(@.max_rpm)]
    /\ UNCHANGED <<file, threshold, hasKey, ingested, runsLeft>>

---------------------------------------------------------------------------
(* Specifications *)

\* The pipeline on one day store, one run at a time, from no file.
Init ==
    /\ file = NoFile
    /\ threshold \in Thresholds
    /\ hasKey \in BOOLEAN
    /\ run = [r \in Runs |-> IdleRun]
    /\ ingested = {}
    /\ runsLeft = MaxRuns
    /\ limiter = [r \in Runs |-> NoProvider(30)]

Next ==
    \/ ScanStart(1)
    \/ DedupStart(1)
    \/ EnrichStart(1)
    \/ Fetch(1, {<<>>})
    \/ Call(1, {"raise", "genuine"})
    \/ SaveOpen(1)
    \/ SaveDump(1)

Spec == Init /\ [][Next]_vars

\* deduplicate_articles on every list of up to MaxArticles feed records, and
\* then on its own output.
RECURSIVE Lists(_)
Lists(n) ==
    IF n = 0 THEN {<<>>}
    ELSE Lists(n - 1) \cup
         {Append(l, Feed[e]) : l \in {m \in Lists(n - 1) : Len(m) = n - 1},
                               e \in 1..Len(Feed)}

InitDedup ==
    /\ file \in {StoreFile(l) : l \in Lists(MaxArticles)}
    /\ threshold \in Thresholds
    /\ hasKey = TRUE
    /\ run = [r \in Runs |-> IdleRun]
    /\ ingested = {}
    /\ runsLeft = MaxPasses
    /\ limiter = [r \in Runs |-> NoProvider(30)]

NextDedup ==
    \/ DedupStart(1)
    \/ SaveOpen(1)
    \/ SaveDump(1)

SpecDedup == InitDedup /\ [][NextDedup]_vars

\* summarize_articles on stores of up to MaxStore records, some of them
\* already enriched by an earlier pass; a run may crash anywhere.
EnrichPool ==
    <<Feed[1], Feed[5], Feed[6],
      UpdateArticle(Feed[3], Genuine(TitleBreaking), TitleBreaking, DescVendor, CatCyber)>>

RECURSIVE Stores(_)
Stores(n) ==
    IF n = 0 THEN {<<>>}
    ELSE Stores(n - 1) \cup
         {Append(l, EnrichPool[e]) : l \in {m \in Stores(n - 1) : Len(m) = n - 1},
                                     e \in 1..Len(EnrichPool)}

InitEnrich ==
    /\ file \in {StoreFile(l) : l \in Stores(MaxStore)}
    /\ threshold = [num |-> 4, den |-> 5]
    /\ hasKey \in BOOLEAN
    /\ run = [r \in Runs |-> IdleRun]
    /\ ingested = {}
    /\ runsLeft = MaxPasses
    /\ limiter = [r \in Runs |-> NoProvider(30)]

NextEnrich ==
    \/ EnrichStart(1)
    \/ Fetch(1, FetchResults)
    \/ Call(1, ResponseKinds)
    \/ SaveOpen(1)
    \/ SaveDump(1)
    \/ Crash(1)

SpecEnrich == InitEnrich /\ [][NextEnrich]_vars

\* Passes without a crash, a page fetch failing or returning a long text; the
\* process keeps executing and every network call returns or times out, so
\* each step is eventually taken.
NextPass ==
    \/ EnrichStart(1)
    \/ Fetch(1, {<<>>, FetchedLong})
    \/ Call(1, ResponseKinds)
    \/ SaveOpen(1)
    \/ SaveDump(1)

SpecPass == InitEnrich /\ [][NextPass]_vars /\ WF_vars(NextPass)

\* Passes in which the page fetch fails or returns a text shorter than, as
\* long as, or longer than the description.
NextInput ==
    \/ EnrichStart(1)
    \/ Fetch(1, FetchResults \cup {FetchedSame})
    \/ Call(1, {"raise", "genuine"})
    \/ SaveOpen(1)
    \/ SaveDump(1)

SpecInput == InitEnrich /\ [][NextInput]_vars

\* Two processes on the same day store, their steps interleaved: run 1 is a
\* scan or a grouping run, run 2 an enrichment pass.  Nothing in the scripts
\* locks the file.
RaceStores == {<<Feed[1]>>, <<Feed[1], Feed[2]>>, <<Feed[1], Feed[5]>>}

InitRace ==
    /\ file \in {StoreFile(l) : l \in RaceStores}
    /\ threshold = [num |-> 4, den |-> 5]
    /\ hasKey = TRUE
    /\ run = [r \in Runs |-> IdleRun]
    /\ ingested = {}
    /\ runsLeft = MaxPasses
    /\ limiter = [r \in Runs |-> NoProvider(30)]

NextRace ==
    \/ ScanStart(1)
    \/ DedupStart(1)
    \/ SaveOpen(1)
    \/ SaveDump(1)
    \/ EnrichStart(2)
    \/ Fetch(2, {<<>>})
    \/ Call(2, {"raise", "genuine"})
    \/ SaveOpen(2)
    \/ SaveDump(2)

SpecRace == InitRace /\ [][NextRace]_vars

\* deduplicate_articles on every list of up to MaxArticles chain records
RECURSIVE ChainLists(_)
ChainLists(n) ==
    IF n = 0 THEN {<<>>}
    ELSE ChainLists(n - 1) \cup
         {Append(l, ChainFeed[e]) : l \in {m \in ChainLists(n - 1) : Len(m) = n - 1},
                                    e \in 1..Len(ChainFeed)}

InitTitle ==
    /\ file \in {StoreFile(l) : l \in ChainLists(MaxArticles)}
    /\ threshold \in Thresholds
    /\ hasKey = TRUE
    /\ run = [r \in Runs |-> IdleRun]
    /\ ingested = {}
    /\ runsLeft = MaxPasses
    /\ limiter = [r \in Runs |-> NoProvider(30)]

NextTitle ==
    \/ DedupStart(1)
    \/ SaveOpen(1)
    \/ SaveDump(1)

SpecTitle == InitTitle /\ [][NextTitle]_vars

\* provider.check_duplicate on the instance of run r: _rate_limit, then the
\* backend call.  Nothing in the scripts calls it; it is an operation of an
\* instance that exists.
CheckDuplicate(r) ==
    /\ limiter[r].built
    /\ limiter' = RateLimit(limiter, r)
    /\ UNCHANGED <<file, threshold, hasKey, run, ingested, runsLeft>>

\* a second passes with no call
Tick ==
    /\ \E p \in Runs : limiter[p].elapsed < MaxElapsed
    /\ limiter' = Pass(limiter, 1)
    /\ UNCHANGED <<file, threshold, hasKey, run, ingested, runsLeft>>

\* Two enrichment processes, each with its own provider instance and its own
\* max_rpm, and time passing between their calls.
InitRate ==
    /\ file = StoreFile(<<Feed[1]>>)
    /\ threshold = [num |-> 4, den |-> 5]
    /\ hasKey = TRUE
    /\ run = [r \in Runs |-> IdleRun]
    /\ ingested = {}
    /\ runsLeft = MaxPasses
    /\ limiter \in [Runs -> {NoProvider(m) : m \in RpmChoices}]

NextRate ==
    \/ \E r \in Runs : EnrichStart(r)
    \/ \E r \in Runs : Fetch(r, {<<>>})
    \/ \E r \in Runs : Call(r, {"raise", "genuine"})
    \/ \E r \in Runs : CheckDuplicate(r)
    \/ \E r \in Runs : SaveOpen(r)
    \/ \E r \in Runs : SaveDump(r)
    \/ Tick

SpecRate == InitRate /\ [][NextRate]_vars

---------------------------------------------------------------------------
(* Properties *)

Low == [num |-> 4, den |-> 5]
High == [num |-> 99, den |-> 100]

\* a grouping run that has computed its result and not yet written it
DedupDone == run[1].kind = "dedup" /\ run[1].pc \in {"save_open", "save_dump"}

\* an enrichment pass between its start and the end of its save
EnrichRunning == run[1].kind = "enrich" /\ run[1].pc # "idle"

RECURSIVE SumCounts(_)
SumCounts(records) ==
    IF records = <<>> THEN 0
    ELSE Head(records).duplicate_count + SumCounts(Tail(records))

\* C1: for every input list and every threshold, the duplicate_count values of
\* the records deduplicate_articles returns add up to the number of input
\* records.
C1_MergeConservation ==
    DedupDone => SumCounts(run[1].articles) = Len(run[1].loaded)

\* three records in, two out, one of them a group of two
C1_Witness ==
    /\ DedupDone
    /\ Len(run[1].loaded) = 3
    /\ Len(run[1].articles) = 2
    /\ \E k \in 1..2 : run[1].articles[k].duplicate_count = 2

HasSummary(a) == "summary_he" \in DOMAIN a

AllSummarized(records) == \A k \in 1..Len(records) : HasSummary(records[k])

\* C2: summarize_articles never selects a record that carries summary_he and
\* never changes one; a pass that saves leaves every record with summary_he;
\* and a pass started on a store whose records all carry summary_he returns at
\* once, with no fetch, no backend call and the file as it was.
C2_IdempotentEnrichment ==
    [][ /\ (run'[1].kind = "enrich" /\ run'[1].pc # "idle") =>
              /\ \A i \in 1..Len(run'[1].todo) :
                    ~HasSummary(run'[1].loaded[run'[1].todo[i]])
              /\ \A k \in 1..Len(run'[1].loaded) :
                    HasSummary(run'[1].loaded[k]) =>
                        run'[1].articles[k] = run'[1].loaded[k]
        /\ (run[1].kind = "enrich" /\ run[1].pc = "save_dump" /\ run'[1].pc = "idle"
            /\ run'[1].outcome = "saved") => AllSummarized(file'.records)
        /\ (run[1].pc = "idle" /\ run'[1] # run[1] /\ file.exists /\ file.wellformed
            /\ AllSummarized(file.records)) =>
              /\ run'[1].pc = "idle"
              /\ run'[1].outcome = "all_summarized"
              /\ file' = file
      ]_vars

\* the second of two passes returned at once on a store the first one filled
\* in (a record with empty details_he got the fallback in this model's run)
C2_Witness ==
    /\ run[1].outcome = "all_summarized"
    /\ runsLeft = MaxPasses - 2
    /\ file.records # <<>>
    /\ \E k \in 1..Len(file.records) : file.records[k].details_he = <<>>

\* C3: after a completed enrichment pass every record of the store has
\* summary_he, details_he and category present and non-null, whatever the
\* backend returned.
C3_FallbackGuarantee ==
    (run[1].kind = "enrich" /\ run[1].pc = "idle" /\ run[1].outcome = "saved") =>
        \A k \in 1..Len(file.records) :
            \A f \in {"summary_he", "details_he", "category"} :
                f \in DOMAIN file.records[k] /\ file.records[k][f] # None

\* a completed pass in which the backend was never reachable
C3_Witness ==
    /\ run[1].kind = "enrich" /\ run[1].pc = "idle" /\ run[1].outcome = "saved"
    /\ Len(file.records) = 2
    /\ \A k \in 1..2 : file.records[k].details_he = <<>>

\* C4: the records with URLs https://x.com/a and https://x.com/a/ and the same
\* title yield one output record with duplicate_count 2 and a sources list of
\* length 1.
C4_ExactUrlScenario ==
    (DedupDone /\ run[1].loaded = <<Feed[1], Feed[2]>>) =>
        /\ Len(run[1].articles) = 1
        /\ run[1].articles[1].duplicate_count = 2
        /\ Len(run[1].articles[1].sources) = 1

\* the scenario's two records are grouped by their normalized URL
C4_Witness ==
    /\ DedupDone
    /\ run[1].loaded = <<Feed[1], Feed[2]>>
    /\ Len(run[1].articles) = 1
    /\ run[1].articles[1].duplicate_count = 2

\* the two records of the near-duplicate scenario, in either order
NearDuplicates == {<<Feed[1], Feed[3]>>, <<Feed[3], Feed[1]>>}

\* C5: the records titled "Breaking: Major Vendor Patches Critical Flaw" and
\* "Major vendor patches critical flaw", with distinct URLs, are merged into
\* one output record at threshold 0.8 and at threshold 0.99 as well: their
\* normalized titles are equal.
C5_NearDuplicatesMerged ==
    (DedupDone /\ run[1].loaded \in NearDuplicates) =>
        /\ Len(run[1].articles) = 1
        /\ run[1].articles[1].duplicate_count = 2
        /\ Len(run[1].articles[1].sources) = 2

C5_Witness ==
    /\ DedupDone
    /\ run[1].loaded = <<Feed[3], Feed[1]>>
    /\ threshold = High
    /\ Len(run[1].articles) = 1

\* C5 as stated: merged at threshold 0.8, two separate records at 0.99
C5_SeparateAtHighThreshold ==
    (DedupDone /\ run[1].loaded \in NearDuplicates) =>
        Len(run[1].articles) = (IF threshold = Low THEN 1 ELSE 2)

\* C6: a scan appends no record whose normalized URL a scan of that day has
\* already written to the store, whatever grouping and enrichment did since.
C6_NoReingest ==
    (run[1].kind = "scan" /\ run[1].pc = "save_open") =>
        \A k \in (Len(run[1].loaded) + 1)..Len(run[1].articles) :
            NormUrl(run[1].articles[k].url) \notin ingested

\* a scan that appended a record to a store holding others
C6_Witness ==
    /\ run[1].kind = "scan" /\ run[1].pc = "save_open"
    /\ Len(run[1].loaded) > 0
    /\ Len(run[1].articles) > Len(run[1].loaded)

\* the step of Call that ends provider.summarize for a record
RecordDone == run[1].pc = "call" /\ Len(run'[1].log) > Len(run[1].log)

\* C7: when every attempt for a record came back well-formed with the title
\* as its summary, 2 calls were made and the record gets summary_he = the
\* first 300 characters of the input text, not the title, details_he empty
\* and its category unchanged.
C7_TitleEcho ==
    [][ (RecordDone /\ run'[1].echoes = run'[1].calls) =>
            LET k == run[1].todo[run[1].idx]
                before == run[1].articles[k]
                after == run'[1].articles[k]
            IN /\ run'[1].calls <= 2
               /\ after.summary_he = Take(run[1].content, 300)
               /\ after.summary_he # Get(before, "title_original", <<>>)
               /\ after.details_he = <<>>
               /\ after.category = Get(before, "category", CatAi)
      ]_vars

\* a record whose two attempts echoed the title, with input text at hand
C7_Witness ==
    /\ EnrichRunning
    /\ run[1].log # <<>>
    /\ run[1].calls = 2 /\ run[1].echoes = 2
    /\ run[1].content # <<>>
    /\ LET k == run[1].log[Len(run[1].log)].k
       IN /\ run[1].articles[k].summary_he = Take(run[1].content, 300)
          /\ run[1].articles[k].details_he = <<>>

ResultFields == {"summary", "details", "category", "title_he"}

\* C8: a result taken from the backend is never a payload with fields
\* missing: such a payload leads to a retry and then to the fallback.
C8_MalformedNeverAccepted ==
    EnrichRunning =>
        \A i \in 1..Len(run[1].log) :
            run[1].log[i].via = "backend" => run[1].log[i].fields = ResultFields

\* a record that got the fallback after two calls, none of them an echo
C8_Witness ==
    /\ EnrichRunning
    /\ run[1].log # <<>>
    /\ run[1].log[Len(run[1].log)].via = "fallback"
    /\ run[1].calls = 2 /\ run[1].echoes = 0

\* the loop's position: the records done so far are the first of to_summarize,
\* each once and in order, and no record has had more than 2 calls
C9_Progress ==
    EnrichRunning =>
        /\ run[1].todo = to_summarize(run[1].loaded)
        /\ run[1].calls <= 2
        /\ Len(run[1].log) <= Len(run[1].todo)
        /\ \A i \in 1..Len(run[1].log) : run[1].log[i].k = run[1].todo[i]
        /\ run[1].pc \in {"fetch", "call"} => run[1].idx = Len(run[1].log) + 1
        /\ run[1].pc \in {"save_open", "save_dump"} =>
              /\ Len(run[1].log) = Len(run[1].todo)
              /\ AllSummarized(run[1].articles)

\* C9: a pass that has built its provider processes each record lacking
\* summary_he once, with at most 2 backend calls each, whatever the fetches
\* and the backend do, and ends with its save.
C9_PassTerminates ==
    /\ []C9_Progress
    /\ (run[1].pc # "idle") ~> (run[1].pc = "idle" /\ run[1].outcome = "saved")

\* two records to do: the first failed twice and got the fallback, the second
\* was then answered by the backend
C9_Witness ==
    /\ EnrichRunning
    /\ run[1].pc = "save_dump"
    /\ Len(run[1].log) = 2
    /\ run[1].log[1].via = "fallback"
    /\ run[1].log[2].via = "backend"

\* C10: whenever no run is in progress, finished or crashed, the day store on
\* disk is a complete well-formed record list.
C10_StoreNeverHalfWritten ==
    run[1].pc = "idle" => (file.exists => file.wellformed)

\* a run that found the store unreadable
C10_Witness ==
    /\ run[1].pc = "idle"
    /\ run[1].outcome = "load_error"

IsPrefix(a, b) == Len(a) <= Len(b) /\ SubSeq(b, 1, Len(a)) = a

\* the fields summarize_articles writes
EnrichedFields == {"title_he", "summary_he", "details_he", "category"}

\* what run r is about to write holds everything r loaded: a scan's copy
\* starts with the loaded records, an enrichment's copy has the loaded records
\* with only the enrichment fields written
KeepsLoaded(r) ==
    /\ run[r].kind = "scan" => IsPrefix(run[r].loaded, run[r].articles)
    /\ run[r].kind = "enrich" =>
          /\ Len(run[r].articles) = Len(run[r].loaded)
          /\ \A k \in 1..Len(run[r].loaded) :
                \A f \in DOMAIN run[r].loaded[k] \ EnrichedFields :
                    f \in DOMAIN run[r].articles[k]
                    /\ run[r].articles[k][f] = run[r].loaded[k][f]

\* C11: with runs interleaved on one day store, each write puts exactly the
\* writing run's whole copy on disk, whatever another run wrote since that
\* copy was loaded (last writer wins); the copy itself holds everything the
\* run loaded, so a run alone loses nothing.
C11_LastWriterWins ==
    [][ /\ (file' # file /\ file'.wellformed) =>
              \E r \in Runs : /\ run[r].pc = "save_dump"
                              /\ run'[r].pc = "idle"
                              /\ file'.records = run[r].articles
        /\ \A r \in Runs :
              (run[r].pc = "save_dump" /\ run'[r].pc = "idle") => KeepsLoaded(r)
      ]_vars

\* the enrichment pass saved, the scan that had loaded the store before wrote
\* after it, and the first record of the store is without summary_he again
C11_Witness ==
    /\ run[1].kind = "scan" /\ run[1].pc = "idle" /\ run[1].outcome = "saved"
    /\ run[2].kind = "enrich" /\ run[2].pc = "idle" /\ run[2].outcome = "saved"
    /\ file.wellformed
    /\ file.records # <<>>
    /\ ~HasSummary(file.records[1])

\* C12: with a record lacking summary_he in the store and no backend key, the
\* enrichment run ends with the configuration error when it builds its
\* provider: it never reaches a fetch or a backend call, and the store is not
\* written, so no record gets a fallback result.
C12_MissingKeyFatal ==
    [][ ~hasKey =>
          /\ file' = file
          /\ run'[1].pc = "idle"
          /\ run'[1].calls = 0 /\ run'[1].log = <<>>
          /\ (run'[1] # run[1] /\ file.exists /\ file.wellformed
              /\ ~AllSummarized(file.records)) => run'[1].outcome = "config_error"
      ]_vars

\* a run that ended with the configuration error on a store with work to do
C12_Witness ==
    /\ ~hasKey
    /\ run[1].kind = "enrich" /\ run[1].pc = "idle"
    /\ run[1].outcome = "config_error"
    /\ file.wellformed /\ ~AllSummarized(file.records)

\* C13: started when the day store does not exist, run_deduplication and
\* summarize_articles each return (the empty list) at once: no exception, no
\* fetch, no backend call, and the file is neither created nor written.
C13_NoStoreFile ==
    [][ (~file.exists /\ run'[1] # run[1] /\ run'[1].kind \in {"dedup", "enrich"}) =>
          /\ run'[1].pc = "idle"
          /\ run'[1].outcome = "no_file"
          /\ run'[1].calls = 0 /\ run'[1].log = <<>>
          /\ file' = file
      ]_vars

\* an enrichment run that found no store
C13_Witness ==
    /\ ~file.exists
    /\ run[1].kind = "enrich" /\ run[1].pc = "idle" /\ run[1].outcome = "no_file"

\* number of records of the pass whose result came the given way
CountVia(via) ==
    Cardinality({i \in 1..Len(run[1].log) : run[1].log[i].via = via})

\* C14: during an enrichment pass success_count is the number of processed
\* records whose result the backend produced, fail_count the number whose
\* result is the fallback, and the two add up to the records processed.
C14_CountsSeparate ==
    EnrichRunning =>
        /\ run[1].success_count = CountVia("backend")
        /\ run[1].fail_count = CountVia("fallback")
        /\ run[1].success_count + run[1].fail_count = Len(run[1].log)

\* a pass in which a fallback result was counted as a success
C14_Witness ==
    /\ EnrichRunning
    /\ CountVia("fallback") > 0
    /\ run[1].success_count > CountVia("backend")

Max(a, b) == IF a >= b THEN a ELSE b

\* instance p made a backend call in this step: its clock restarts, and the
\* time since its call before is its own elapsed time, stretched by its own
\* sleep to min_interval
CalledAlone(p) ==
    /\ limiter[p].built /\ limiter'[p].built
    /\ limiter'[p].elapsed = 0
    /\ limiter'[p].gap =
           Min(Max(limiter[p].elapsed, min_interval(limiter[p].max_rpm)), MaxElapsed)

\* instance p made no call in this step: another instance's call neither
\* restarts its clock nor changes its gap
Untouched(p) ==
    /\ limiter'[p].gap = limiter[p].gap
    /\ limiter'[p].elapsed >= limiter[p].elapsed

\* C15: for each provider instance, two consecutive backend calls (summarize
\* attempts, retries included, and check_duplicate) are at least 60 / max_rpm
\* seconds apart, and the clock of an instance is moved only by its own calls
\* and by time passing.
C15_RateLimit ==
    /\ [](\A p \in Runs : limiter[p].gap >= min_interval(limiter[p].max_rpm))
    /\ [][\A p \in Runs :
             \/ CalledAlone(p)
             \/ Untouched(p)
             \/ limiter'[p] \in {NoProvider(limiter[p].max_rpm),
                                 NewProvider(limiter[p].max_rpm)}
         ]_vars

\* both instances have made two calls, the one with max_rpm = 20 exactly
\* 3 seconds apart and the one with max_rpm = 30 exactly 2 seconds apart, and
\* the second one called while the first was inside its interval
C15_Witness ==
    /\ limiter[1].built /\ limiter[2].built
    /\ limiter[1].max_rpm = 20 /\ limiter[1].gap = 3 /\ limiter[1].elapsed = 1
    /\ limiter[2].max_rpm = 30 /\ limiter[2].gap = 2 /\ limiter[2].elapsed = 0
    /\ run[1].calls = 2

DistinctIds(records) ==
    \A i, j \in 1..Len(records) : records[i].id = records[j].id => i = j

\* C16: whatever scan, grouping and enrichment runs have written the day
\* store, the ids of its records are pairwise distinct, and so are the ids of
\* the list a grouping run has computed.
C16_UniqueIds ==
    /\ file.wellformed => DistinctIds(file.records)
    /\ DedupDone => DistinctIds(run[1].articles)

\* a saved grouping run that merged two records and left two or more
C16_Witness ==
    /\ run[1].kind = "dedup" /\ run[1].pc = "idle" /\ run[1].outcome = "saved"
    /\ file.wellformed
    /\ Len(file.records) >= 2
    /\ \E k \in 1..Len(file.records) : file.records[k].duplicate_count >= 2

\* the groups of the URL pass for the list a grouping run loaded
UrlGroups == UrlPass(run[1].loaded, 1, <<>>, <<>>)

\* For URL group j, the group it ends in: the first group i before j that is
\* not itself absorbed and whose first member's title scores >= threshold
\* against the title of j's first member, or j itself when there is none.
RECURSIVE Owner(_, _)
Owner(g, j) ==
    LET takers == {i \in 1..(j - 1) :
                      /\ Owner(g, i) = i
                      /\ SimGE(Similarity(g[i][1].title_original,
                                          g[j][1].title_original), threshold)}
    IN IF takers = {} THEN j
       ELSE CHOOSE i \in takers : \A m \in takers : i <= m

\* the surviving groups, by the index of their first URL group, ascending
RECURSIVE Ascending(_)
Ascending(S) ==
    IF S = {} THEN <<>>
    ELSE LET lo == CHOOSE x \in S : \A y \in S : x <= y
         IN <<lo>> \o Ascending(S \ {lo})

Survivors == Ascending({j \in DOMAIN UrlGroups : Owner(UrlGroups, j) = j})

RECURSIVE SumLen(_, _)
SumLen(g, S) ==
    IF S = {} THEN 0
    ELSE LET x == CHOOSE y \in S : TRUE
         IN Len(g[x]) + SumLen(g, S \ {x})

\* C17: the title pass is left-biased.  A group is absorbed by the first
\* surviving group before it whose original first member's title scores >= T
\* against its own first title, and by no group otherwise, whatever members
\* that group has absorbed; the output has one record per surviving group, in
\* group-creation order.  So A, B, C with A~B, B~C and not A~C give {A, B} and
\* {C}, while B, A, C give one record.
C17_LeftBiased ==
    DedupDone =>
        /\ Len(run[1].articles) = Len(Survivors)
        /\ \A k \in 1..Len(Survivors) :
              /\ run[1].articles[k].sources[1].url = UrlGroups[Survivors[k]][1].url
              /\ run[1].articles[k].duplicate_count =
                     SumLen(UrlGroups,
                            {j \in DOMAIN UrlGroups : Owner(UrlGroups, j) = Survivors[k]})
        /\ (threshold = Low /\ run[1].loaded = <<ChainFeed[1], ChainFeed[2], ChainFeed[3]>>) =>
              /\ Len(run[1].articles) = 2
              /\ run[1].articles[1].duplicate_count = 2
              /\ run[1].articles[2].id = ChainFeed[3].id
        /\ (threshold = Low /\ run[1].loaded = <<ChainFeed[2], ChainFeed[1], ChainFeed[3]>>) =>
              /\ Len(run[1].articles) = 1
              /\ run[1].articles[1].duplicate_count = 3

\* A, B, C in this order: C scores 9/10 against the absorbed B and stays apart
C17_Witness ==
    /\ DedupDone
    /\ threshold = Low
    /\ run[1].loaded = <<ChainFeed[1], ChainFeed[2], ChainFeed[3]>>
    /\ Len(run[1].articles) = 2

RECURSIVE Concat(_, _)
Concat(g, idxs) ==
    IF idxs = <<>> THEN <<>> ELSE g[Head(idxs)] \o Concat(g, Tail(idxs))

\* the members of the k-th surviving group, in group order
FinalGroup(k) ==
    Concat(UrlGroups,
           Ascending({j \in DOMAIN UrlGroups : Owner(UrlGroups, j) = Survivors[k]}))

\* the fields the result loop sets itself
Derived == {"sources", "duplicate_count"}

\* record out carries the fields of member a
CarriesFields(out, a) ==
    /\ DOMAIN out = DOMAIN a \cup Derived
    /\ \A f \in DOMAIN a \ Derived : out[f] = a[f]

\* description length, a missing description being length 0
LenOfDescription(a) ==
    IF "description" \in DOMAIN a THEN Len(a.description) ELSE 0

\* C18: the output record of each surviving group carries the fields of the
\* group's primary member: a member whose description is at least as long as
\* every member's and longer than that of every member before it in group
\* order, a missing description counting as length 0.
C18_PrimaryLongestFirst ==
    DedupDone =>
        \A k \in 1..Len(run[1].articles) :
            LET group == FinalGroup(k)
            IN \E p \in 1..Len(group) :
                  /\ CarriesFields(run[1].articles[k], group[p])
                  /\ \A m \in 1..Len(group) :
                        LenOfDescription(group[m]) <= LenOfDescription(group[p])
                  /\ \A m \in 1..(p - 1) :
                        LenOfDescription(group[m]) < LenOfDescription(group[p])

\* the group B, A, C: B has no description, A and C tie at 5 characters, and
\* the record carries A's fields
C18_Witness ==
    /\ DedupDone
    /\ threshold = Low
    /\ run[1].loaded = <<ChainFeed[2], ChainFeed[1], ChainFeed[3]>>
    /\ Len(run[1].articles) = 1
    /\ run[1].articles[1].id = ChainFeed[1].id

\* the record an enrichment pass is at
CurrentArticle == run[1].articles[run[1].todo[run[1].idx]]

\* C19: the text handed to the backend is the fetched page text exactly when
\* that text is non-empty and at least as long as the description; otherwise
\* it is the description, or the title when both are empty.
C19_InputText ==
    (run[1].kind = "enrich" /\ run[1].pc = "call") =>
        LET description == Get(CurrentArticle, "description", <<>>)
            title == Get(CurrentArticle, "title_original", <<>>)
            fetched == run[1].fetched
        IN run[1].content =
               IF fetched # <<>> /\ Len(fetched) >= Len(description) THEN fetched
               ELSE IF description # <<>> THEN description
               ELSE title

\* a fetched text exactly as long as the description, and the description is
\* what goes to the backend
C19_Witness ==
    /\ run[1].kind = "enrich" /\ run[1].pc = "call"
    /\ run[1].fetched = FetchedSame
    /\ Len(Get(CurrentArticle, "description", <<>>)) = Len(FetchedSame)
    /\ run[1].content = Get(CurrentArticle, "description", <<>>)

\* a grouping run that loaded what the grouping run before it saved
SecondGrouping == DedupDone /\ runsLeft < MaxPasses - 1

\* C20: a grouping run on the output of the grouping run before it computes
\* the list it loaded: the same records in the same order, with the same
\* sources and duplicate_count.
C20_GroupingIdempotent == SecondGrouping => run[1].articles = run[1].loaded

\* the second run turns a record of two merged entries into a record with one
\* source and duplicate_count 1
C20_Witness ==
    /\ SecondGrouping
    /\ Len(run[1].loaded) = 1 /\ Len(run[1].articles) = 1
    /\ run[1].loaded[1].duplicate_count = 2 /\ Len(run[1].loaded[1].sources) = 2
    /\ run[1].articles[1].duplicate_count = 1 /\ Len(run[1].articles[1].sources) = 1

\* the record of a grouping run's output that stands for loaded record a: the
\* one whose sources list the URL of a
StandsFor(out, a) == \E s \in 1..Len(out.sources) : out.sources[s].url = a.url

\* C21: when a grouping run has loaded a record with summary_he, the output
\* record of that record's group has summary_he too, so the story is not
\* selected by a later enrichment pass.
C21_EnrichmentKept ==
    DedupDone =>
        \A k \in 1..Len(run[1].loaded) :
            HasSummary(run[1].loaded[k]) =>
                \A o \in 1..Len(run[1].articles) :
                    StandsFor(run[1].articles[o], run[1].loaded[k]) =>
                        HasSummary(run[1].articles[o])

\* a grouping run whose store held an enriched record and a later-scanned
\* entry of the same story, and whose one output record has no summary_he
C21_Witness ==
    /\ DedupDone
    /\ Len(run[1].loaded) = 2 /\ Len(run[1].articles) = 1
    /\ HasSummary(run[1].loaded[1]) /\ ~HasSummary(run[1].loaded[2])
    /\ ~HasSummary(run[1].articles[1])
    /\ run[1].articles[1].duplicate_count = 2

====
